---- MODULE Spec2Model ----
(***************************************************************************)
(* Model of src/ecommerce_app.py: a Streamlit script that generates a      *)
(* synthetic sales table and a customer table from a seeded random         *)
(* generator, left-joins them, filters the join by the sidebar widgets and *)
(* computes KPIs and a per-category revenue aggregation.                   *)
(*                                                                         *)
(* Data frames are sequences of records (row order and duplicate rows are  *)
(* kept, as pandas keeps them).  Calendar dates are day ordinals counted   *)
(* from 2022-01-01 in a calendar of DaysInYear days per year.  Money is    *)
(* exact: Discount is held in percent and Revenue in hundredths, so        *)
(* Revenue = Price * Quantity * (100 - Discount).                          *)
(***************************************************************************)
EXTENDS Integers, Sequences, FiniteSets

\* Days in a calendar year of the model (365 in the Gregorian year 2023).
DaysInYear == 2

\* Upper limit on the number of executions of load_data's body in one behaviour.
MaxLoads == 2

VARIABLES
    stream42,             \* the draws numpy's global generator yields after seed(42)
    cache,                \* st.cache_data memo of load_data: <<>> or <<tables>>
    loads,                \* number of times load_data's body has executed
    pc,                   \* "start" before the first script run, "rendered" after one
    sales_df,
    customer_df,
    merged_df,
    date_range,
    selected_categories,
    selected_products,
    selected_regions,
    filtered_df,
    total_revenue,
    total_orders,
    avg_order_value,
    category_revenue

vars == <<stream42, cache, loads, pc, sales_df, customer_df, merged_df, date_range,
          selected_categories, selected_products, selected_regions, filtered_df,
          total_revenue, total_orders, avg_order_value, category_revenue>>

-----------------------------------------------------------------------------
\* Calendar and library helpers

\* The day ordinal of day-of-year doy in year y.
Date(y, doy) == (y - 2022) * DaysInYear + (doy - 1)

\* The calendar year a day ordinal falls in.
YearOf(d) == 2022 + (d \div DaysInYear)

\* pd.date_range(start, end): every day from start to end, both included.
pd_date_range(start, end) == [i \in 1..(end - start + 1) |-> start + (i - 1)]

\* np.random.randint(low, high): the integers it can return, high excluded.
np_randint(low, high) == low..(high - 1)

\* np.random.choice(a): the elements of the sequence a.
np_choice(a) == {a[i] : i \in DOMAIN a}

Min(S) == CHOOSE x \in S : \A y \in S : x <= y
Max(S) == CHOOSE x \in S : \A y \in S : y <= x

\* Series.unique(): the distinct values of a column, in order of first appearance.
RECURSIVE unique(_)
unique(col) ==
    IF col = <<>> THEN <<>>
    ELSE LET init == unique(SubSeq(col, 1, Len(col) - 1))
             last == col[Len(col)]
         IN  IF \E i \in DOMAIN init : init[i] = last THEN init ELSE Append(init, last)

\* df[name] for each column the script reads.
ColCustomerID(df) == [i \in DOMAIN df |-> df[i].CustomerID]
ColCategory(df)   == [i \in DOMAIN df |-> df[i].Category]
ColProduct(df)    == [i \in DOMAIN df |-> df[i].Product]
ColRegion(df)     == [i \in DOMAIN df |-> df[i].Region]

\* df['Revenue'].sum()
RECURSIVE SumRevenue(_)
SumRevenue(df) ==
    IF df = <<>> THEN 0 ELSE SumRevenue(Tail(df)) + Head(df).Revenue

-----------------------------------------------------------------------------
\* load_data

products   == <<"Laptop", "Phone", "Tablet", "Headphones", "Smartwatch", "Camera">>
categories == <<"Electronics", "Electronics", "Electronics", "Accessories", "Accessories",
                "Electronics">>
regions    == <<"North", "South", "East", "West">>
discounts  == <<0, 5, 10, 15, 20>>
genders    == <<"Male", "Female">>
tiers      == <<"Bronze", "Silver", "Gold">>

\* Mutant of sales_dates: the range runs on into the first day of 2024.
sales_dates_into_2024 == pd_date_range(Date(2023, 1), Date(2024, 1))

\* date_range of load_data: the days of 2023.
sales_dates == pd_date_range(Date(2023, 1), Date(2023, DaysInYear))

\* Mutant of join_dates: the range ends a day later, on 2023-01-02.
join_dates_one_more == pd_date_range(Date(2022, 1), Date(2023, 2))

\* The days JoinDate is chosen from.
join_dates == pd_date_range(Date(2022, 1), Date(2023, 1))

\* One sales row from the draws e of one inner-loop iteration on day date.
SalesRow(date, e) ==
    [Date       |-> date,
     Product    |-> products[e.product_idx + 1],
     Category   |-> categories[e.product_idx + 1],
     Price      |-> e.price,
     Quantity   |-> e.quantity,
     Revenue    |-> e.price * e.quantity * (100 - e.discount),
     Discount   |-> e.discount,
     Region     |-> e.region,
     CustomerID |-> e.CustomerID]

\* The rows appended for the days dates[1..k], in loop order; s.days[k] holds the
\* draws of the inner loop on day k, one entry per iteration.
RECURSIVE SalesData(_, _)
SalesData(s, k) ==
    IF k = 0 THEN <<>>
    ELSE SalesData(s, k - 1)
         \o [i \in DOMAIN s.days[k] |-> SalesRow(sales_dates[k], s.days[k][i])]

\* Mutant of customer_ids: the column as it is, duplicates kept.
customer_ids_not_unique(df) == ColCustomerID(df)

\* Mutant of customer_ids: the last distinct id is left out.
customer_ids_but_last(df) ==
    LET ids == unique(ColCustomerID(df)) IN SubSeq(ids, 1, Len(ids) - 1)

\* customer_ids = df['CustomerID'].unique()
customer_ids(df) == unique(ColCustomerID(df))

\* One customer row per element of customer_ids, with the draws s.cu[i].
CustomerData(s, ids) ==
    [i \in DOMAIN ids |->
        [CustomerID  |-> ids[i],
         Age         |-> s.cu[i].Age,
         Gender      |-> s.cu[i].Gender,
         JoinDate    |-> s.cu[i].JoinDate,
         LoyaltyTier |-> s.cu[i].LoyaltyTier]]

\* load_data's body run on the stream s: the pair (df, customer_df).
load_data(s) ==
    LET df == SalesData(s, Len(sales_dates))
    IN  [df |-> df, customer_df |-> CustomerData(s, customer_ids(df))]

\* Mutant of np_random_seed: the generator is not reseeded, so a later execution
\* of the body gets other draws than the first (here the days' draws in reverse).
np_random_not_seeded ==
    IF loads = 0 THEN {stream42}
    ELSE {[days |-> [d \in DOMAIN stream42.days |->
                        stream42.days[Len(stream42.days) + 1 - d]],
           cu   |-> stream42.cu]}

\* np.random.seed(42): the streams the generator can deliver after the call.
np_random_seed == {stream42}

-----------------------------------------------------------------------------
\* Joiner

\* The value pandas puts in a numeric or date column of an unmatched row.
NaN == -1

\* The customer columns of a left row that matches no customer.
NullCustomer == [Age |-> NaN, Gender |-> "NaN", JoinDate |-> NaN, LoyaltyTier |-> "NaN"]

\* One row of the join: the sales columns of l and the customer columns of c.
MergedRow(l, c) ==
    [f \in DOMAIN l \cup {"Age", "Gender", "JoinDate", "LoyaltyTier"} |->
        IF f \in DOMAIN l THEN l[f] ELSE c[f]]

\* pd.merge(left, right, on='CustomerID', how='left'): for every left row, in
\* order, one row per right row with the same key, or one NaN-filled row if none.
RECURSIVE pd_merge_left(_, _)
pd_merge_left(left, right) ==
    IF left = <<>> THEN <<>>
    ELSE LET l == left[Len(left)]
             Same(c) == c.CustomerID = l.CustomerID
             matches == SelectSeq(right, Same)
             rows == IF matches = <<>> THEN <<MergedRow(l, NullCustomer)>>
                     ELSE [i \in DOMAIN matches |-> MergedRow(l, matches[i])]
         IN  pd_merge_left(SubSeq(left, 1, Len(left) - 1), right) \o rows

-----------------------------------------------------------------------------
\* Filter stage

\* Mutant of DateFilter: the end of the interval is excluded.
DateFilterOpenEnd(df, dr) ==
    IF Len(dr) = 2
    THEN LET InRange(r) == r.Date >= dr[1] /\ r.Date < dr[2]
         IN  SelectSeq(df, InRange)
    ELSE df

\* Mutant of DateFilter: a single date is taken as a one-day interval.
DateFilterSingleDay(df, dr) ==
    IF Len(dr) = 2
    THEN LET InRange(r) == r.Date >= dr[1] /\ r.Date <= dr[2]
         IN  SelectSeq(df, InRange)
    ELSE IF Len(dr) = 1
    THEN LET OnDay(r) == r.Date = dr[1]
         IN  SelectSeq(df, OnDay)
    ELSE df

\* The date-range stage: the rows inside the interval when the date input holds
\* two dates, every row otherwise.
DateFilter(df, dr) ==
    IF Len(dr) = 2
    THEN LET InRange(r) == r.Date >= dr[1] /\ r.Date <= dr[2]
         IN  SelectSeq(df, InRange)
    ELSE df

\* Mutant of ApplyFilters: an empty selection leaves its column unfiltered.
ApplyFiltersEmptyIsAll(df, cats, prods, regs) ==
    LET IsIn(r) == /\ (cats = {} \/ r.Category \in cats)
                   /\ (prods = {} \/ r.Product \in prods)
                   /\ (regs = {} \/ r.Region \in regs)
    IN  SelectSeq(df, IsIn)

\* The membership stage: rows whose Category, Product and Region are selected.
ApplyFilters(df, cats, prods, regs) ==
    LET IsIn(r) == r.Category \in cats /\ r.Product \in prods /\ r.Region \in regs
    IN  SelectSeq(df, IsIn)

\* The values a multiselect offers: the distinct values of the column.
Options(col) == {col[i] : i \in DOMAIN col}

\* The values the date input can return: up to two days of 2023, in order.
DateInputs ==
    LET days == {sales_dates[i] : i \in DOMAIN sales_dates}
    IN  {<<>>} \cup {<<d>> : d \in days}
        \cup {p \in days \X days : p[1] <= p[2]}

\* The value the date input holds until the user changes it.
DefaultDateRange == <<Date(2023, 1), Date(2023, DaysInYear)>>

-----------------------------------------------------------------------------
\* Aggregation stage

\* a / b as the exact fraction; den = 0 stands for a division by zero.
TrueDiv(a, b) == [num |-> a, den |-> b]

\* The literal 0 of the else branch.
Zero == [num |-> 0, den |-> 1]

\* Mutant of AvgOrderValue: the division without its guard.
AvgOrderValueUnguarded(revenue, orders) == TrueDiv(revenue, orders)

\* avg_order_value
AvgOrderValue(revenue, orders) ==
    IF orders > 0 THEN TrueDiv(revenue, orders) ELSE Zero

\* Mutant of GroupByCategoryRevenue: each group keeps its first row's Revenue only.
GroupByCategoryFirst(df) ==
    [c \in Options(ColCategory(df)) |->
        LET InGroup(r) == r.Category = c IN Head(SelectSeq(df, InGroup)).Revenue]

\* filtered_df.groupby('Category')['Revenue'].sum(): one entry per category
\* present, holding the sum of the Revenue of the rows of that category.
GroupByCategoryRevenue(df) ==
    [c \in Options(ColCategory(df)) |->
        LET InGroup(r) == r.Category = c IN SumRevenue(SelectSeq(df, InGroup))]

-----------------------------------------------------------------------------
\* The random streams considered

\* The values one inner-loop iteration can draw.
InEventRange(e) ==
    /\ e.product_idx \in np_randint(0, Len(products))
    /\ e.price >= 100 /\ e.price < 2000
    /\ e.quantity \in np_randint(1, 3)
    /\ e.region \in np_choice(regions)
    /\ e.discount \in np_choice(discounts)
    /\ e.CustomerID \in np_randint(1000, 9999)

\* The number of inner-loop iterations of one day (5 to 19 in the script).
orders_per_day == np_randint(1, 3)

\* Draws of one iteration: two categories, three products, two regions, two
\* customers and three revenues.
EventSamples ==
    {e \in {[product_idx |-> 0, price |-> 100, quantity |-> 1, region |-> "North",
             discount |-> 0, CustomerID |-> 1000],
            [product_idx |-> 3, price |-> 1999, quantity |-> 2, region |-> "South",
             discount |-> 20, CustomerID |-> 9998],
            [product_idx |-> 1, price |-> 250, quantity |-> 2, region |-> "South",
             discount |-> 5, CustomerID |-> 1000]} : InEventRange(e)}

\* Draws of one iteration that differ in the customer only: the ends of the
\* CustomerID range.
CustomerIdSamples ==
    {[product_idx |-> 0, price |-> 100, quantity |-> 1, region |-> "North",
      discount |-> 0, CustomerID |-> id] :
        id \in {Min(np_randint(1000, 9999)), Max(np_randint(1000, 9999))}}

\* Draws of one customer: the ends of the Age and JoinDate ranges, every Gender
\* and every LoyaltyTier.
CustomerDraws ==
    LET ages  == np_randint(18, 70)
        joins == np_choice(join_dates)
    IN  {[Age |-> Min(ages), Gender |-> genders[1], JoinDate |-> Min(joins),
          LoyaltyTier |-> tiers[1]],
         [Age |-> Max(ages), Gender |-> genders[2], JoinDate |-> Max(joins),
          LoyaltyTier |-> tiers[3]],
         [Age |-> Min(ages), Gender |-> genders[2], JoinDate |-> Max(joins),
          LoyaltyTier |-> tiers[2]],
         [Age |-> Max(ages), Gender |-> genders[1], JoinDate |-> Min(joins),
          LoyaltyTier |-> tiers[1]]}

\* One customer draw, for the streams that vary the sales events.
FirstCustomerDraw == {c \in CustomerDraws : c.Age = 18 /\ c.Gender = "Male"}

\* The draws of the inner loop of one day: one entry per iteration, ns the
\* numbers of iterations considered.
DayDraws(ns, evs) == UNION {[1..n -> evs] : n \in ns}

\* The streams that draw events from evs and customers from cus: the draws of
\* every day, and one customer draw per distinct CustomerID drawn.
Streams(ns, evs, cus) ==
    UNION {{[days |-> dd, cu |-> c] :
               c \in [1..Len(customer_ids(SalesData([days |-> dd], Len(sales_dates)))) -> cus]} :
           dd \in [DOMAIN sales_dates -> DayDraws(ns, evs)]}

\* Streams that vary the sales events: one order a day.
EventStreams == Streams({Min(orders_per_day)}, EventSamples, FirstCustomerDraw)

\* Streams that vary the customers: one or two orders a day.
CustomerStreams == Streams(orders_per_day, CustomerIdSamples, CustomerDraws)

-----------------------------------------------------------------------------
\* The script

\* The state before the first run of the script, with the stream s behind seed 42.
Start(s) ==
    /\ stream42 = s
    /\ cache = <<>>
    /\ loads = 0
    /\ pc = "start"
    /\ sales_df = <<>>
    /\ customer_df = <<>>
    /\ merged_df = <<>>
    /\ date_range = <<>>
    /\ selected_categories = {}
    /\ selected_products = {}
    /\ selected_regions = {}
    /\ filtered_df = <<>>
    /\ total_revenue = 0
    /\ total_orders = 0
    /\ avg_order_value = Zero
    /\ category_revenue = <<>>

Init == \E s \in EventStreams : Start(s)

InitGen == \E s \in CustomerStreams : Start(s)

\* load_data() under st.cache_data: the memoized tables, or the body run after
\* np.random.seed(42).
CachedLoadData ==
    IF cache # <<>> THEN {cache[1]} ELSE {load_data(s) : s \in np_random_seed}

\* One run of the script from top to bottom with the tables load_data returned
\* and the widget values dr, cats, prods, regs.
Script(tables, dr, cats, prods, regs) ==
    LET merged   == pd_merge_left(tables.df, tables.customer_df)
        filtered == ApplyFilters(DateFilter(merged, dr), cats, prods, regs)
    IN  /\ cache' = <<tables>>
        /\ loads' = IF cache # <<>> THEN loads ELSE loads + 1
        /\ pc' = "rendered"
        /\ sales_df' = tables.df
        /\ customer_df' = tables.customer_df
        /\ merged_df' = merged
        /\ date_range' = dr
        /\ selected_categories' = cats
        /\ selected_products' = prods
        /\ selected_regions' = regs
        /\ filtered_df' = filtered
        /\ total_revenue' = SumRevenue(filtered)
        /\ total_orders' = Len(filtered)
        /\ avg_order_value' = AvgOrderValue(SumRevenue(filtered), Len(filtered))
        /\ category_revenue' = GroupByCategoryRevenue(filtered)
        /\ UNCHANGED stream42

\* The table the multiselects take their options from: the join after the date stage.
Dated(tables, dr) == DateFilter(pd_merge_left(tables.df, tables.customer_df), dr)

\* The value of a multiselect in a rerun in which the user did not touch it: the
\* selection it had if its options are the same as in the last run, its default
\* (every option) if they changed.
Multiselect(old_options, options, selection) ==
    IF options = old_options THEN selection ELSE options

\* The first run of a session: every widget at its default, the whole year and
\* every value selected.
FirstRun ==
    /\ pc = "start"
    /\ \E tables \in CachedLoadData :
        LET dated == Dated(tables, DefaultDateRange)
        IN  Script(tables, DefaultDateRange, Options(ColCategory(dated)),
                   Options(ColProduct(dated)), Options(ColRegion(dated)))

\* A rerun with no filter changed (another widget was used, or the page reloaded).
Rerun ==
    /\ pc = "rendered"
    /\ \E tables \in CachedLoadData :
        Script(tables, date_range, selected_categories, selected_products,
               selected_regions)

\* The user changes the date input: up to two days of 2023.
ChangeDateRange ==
    /\ pc = "rendered"
    /\ \E tables \in CachedLoadData, dr \in DateInputs \ {date_range} :
        LET old == Dated(tables, date_range)
            new == Dated(tables, dr)
        IN  Script(tables, dr,
                   Multiselect(Options(ColCategory(old)), Options(ColCategory(new)),
                               selected_categories),
                   Multiselect(Options(ColProduct(old)), Options(ColProduct(new)),
                               selected_products),
                   Multiselect(Options(ColRegion(old)), Options(ColRegion(new)),
                               selected_regions))

\* The user changes the Categories multiselect to another subset of its options.
ChangeCategories ==
    /\ pc = "rendered"
    /\ \E tables \in CachedLoadData :
        \E cats \in SUBSET Options(ColCategory(Dated(tables, date_range)))
                    \ {selected_categories} :
            Script(tables, date_range, cats, selected_products, selected_regions)

\* The user changes the Products multiselect to another subset of its options.
ChangeProducts ==
    /\ pc = "rendered"
    /\ \E tables \in CachedLoadData :
        \E prods \in SUBSET Options(ColProduct(Dated(tables, date_range)))
                     \ {selected_products} :
            Script(tables, date_range, selected_categories, prods, selected_regions)

\* The user changes the Regions multiselect to another subset of its options.
ChangeRegions ==
    /\ pc = "rendered"
    /\ \E tables \in CachedLoadData :
        \E regs \in SUBSET Options(ColRegion(Dated(tables, date_range)))
                    \ {selected_regions} :
            Script(tables, date_range, selected_categories, selected_products, regs)

\* The memo of load_data is dropped (the cache is cleared or the server restarts).
ClearCache ==
    /\ cache # <<>>
    /\ loads < MaxLoads
    /\ cache' = <<>>
    /\ UNCHANGED <<stream42, loads, pc, sales_df, customer_df, merged_df, date_range,
                   selected_categories, selected_products, selected_regions,
                   filtered_df, total_revenue, total_orders, avg_order_value,
                   category_revenue>>

Next ==
    \/ FirstRun
    \/ Rerun
    \/ ChangeDateRange
    \/ ChangeCategories
    \/ ChangeProducts
    \/ ChangeRegions
    \/ ClearCache

NextGen == FirstRun \/ Rerun \/ ClearCache

Spec == Init /\ [][Next]_vars

SpecGen == InitGen /\ [][NextGen]_vars

-----------------------------------------------------------------------------
\* Properties

\* The sum of the values of the function f over the keys in S.
RECURSIVE SumOver(_, _)
SumOver(f, S) ==
    IF S = {} THEN 0
    ELSE LET k == CHOOSE x \in S : TRUE IN f[k] + SumOver(f, S \ {k})

\* The rows of the sequence df, as a set.
Rows(df) == {df[i] : i \in DOMAIN df}

\* C1: when the date input holds two dates, the filtered table is exactly the
\* merged rows, in order, whose Date lies in [start, end] with both ends
\* included and whose Category, Product and Region are each selected.
FilterContract ==
    (pc = "rendered" /\ Len(date_range) = 2) =>
        LET Keep(r) == /\ date_range[1] <= r.Date
                       /\ r.Date <= date_range[2]
                       /\ r.Category \in selected_categories
                       /\ r.Product \in selected_products
                       /\ r.Region \in selected_regions
        IN  filtered_df = SelectSeq(merged_df, Keep)

\* C1 witness: a one-day interval keeps a row of that day and drops another row.
FilterContractWitness ==
    /\ pc = "rendered"
    /\ Len(date_range) = 2
    /\ date_range[1] = date_range[2]
    /\ Len(filtered_df) > 0
    /\ Len(filtered_df) < Len(merged_df)

\* C2: if the selected categories, products or regions are empty, the filtered
\* table has no rows.
EmptySelectionEmptyResult ==
    (/\ pc = "rendered"
     /\ \/ selected_categories = {}
        \/ selected_products = {}
        \/ selected_regions = {})
    => Len(filtered_df) = 0

\* C2 witness: only the regions are deselected, over a date range that has rows.
EmptySelectionWitness ==
    /\ pc = "rendered"
    /\ selected_regions = {}
    /\ selected_categories # {}
    /\ selected_products # {}
    /\ Len(DateFilter(merged_df, date_range)) > 0
    /\ Len(filtered_df) = 0

\* C3: the average order value is total revenue over the number of filtered rows
\* when there are rows, is 0 when there are none, and is never a division by zero.
AvgOrderValueContract ==
    pc = "rendered" =>
        /\ avg_order_value.den # 0
        /\ Len(filtered_df) > 0 =>
               avg_order_value = TrueDiv(SumRevenue(filtered_df), Len(filtered_df))
        /\ Len(filtered_df) = 0 => avg_order_value = Zero

\* C3 witness: a render whose filtered table is empty although the join is not.
AvgOrderValueWitness ==
    /\ pc = "rendered"
    /\ Len(merged_df) > 0
    /\ Len(filtered_df) = 0
    /\ total_orders = 0
    /\ avg_order_value = Zero

\* C4: the per-category revenues add up to the total revenue of the filtered
\* table, and every filtered row belongs to one of the groups.
CategoryRevenueAddsUp ==
    pc = "rendered" =>
        /\ SumOver(category_revenue, DOMAIN category_revenue) = total_revenue
        /\ total_revenue = SumRevenue(filtered_df)
        /\ \A r \in Rows(filtered_df) : r.Category \in DOMAIN category_revenue

\* C4 witness: two category groups with different revenues.
CategoryRevenueWitness ==
    /\ pc = "rendered"
    /\ Cardinality(DOMAIN category_revenue) = 2
    /\ \E c1, c2 \in DOMAIN category_revenue : category_revenue[c1] # category_revenue[c2]

\* C5: with the date range 2023-01-01 to 2023-12-31 and every category, product
\* and region of the data selected, the filtered table is the merged table.
FullSelectionKeepsAll ==
    (/\ pc = "rendered"
     /\ date_range = <<Date(2023, 1), Date(2023, DaysInYear)>>
     /\ selected_categories = Options(ColCategory(merged_df))
     /\ selected_products = Options(ColProduct(merged_df))
     /\ selected_regions = Options(ColRegion(merged_df)))
    => filtered_df = merged_df

\* C5 witness: such a render over a join with rows on different days.
FullSelectionWitness ==
    /\ pc = "rendered"
    /\ date_range = <<Date(2023, 1), Date(2023, DaysInYear)>>
    /\ selected_categories = Options(ColCategory(merged_df))
    /\ selected_products = Options(ColProduct(merged_df))
    /\ selected_regions = Options(ColRegion(merged_df))
    /\ \E r1, r2 \in Rows(merged_df) : r1.Date # r2.Date
    /\ filtered_df = merged_df

\* C6: every CustomerID of a sales row has a customer record, and no merged row
\* has an empty customer field.
EveryOrderHasCustomer ==
    pc = "rendered" =>
        /\ \A r \in Rows(sales_df) : \E c \in Rows(customer_df) :
               c.CustomerID = r.CustomerID
        /\ \A m \in Rows(merged_df) :
               /\ m.Age # NullCustomer.Age
               /\ m.Gender # NullCustomer.Gender
               /\ m.JoinDate # NullCustomer.JoinDate
               /\ m.LoyaltyTier # NullCustomer.LoyaltyTier

\* C6 witness: sales rows of two different customers have been joined.
EveryOrderHasCustomerWitness ==
    /\ pc = "rendered"
    /\ Len(customer_df) = 2
    /\ \E m1, m2 \in Rows(merged_df) : m1.CustomerID # m2.CustomerID

\* C7: no two customer records have the same CustomerID, and the merged table
\* has as many rows as the sales table.
CustomerIdUnique ==
    pc = "rendered" =>
        /\ \A i, j \in DOMAIN customer_df :
               customer_df[i].CustomerID = customer_df[j].CustomerID => i = j
        /\ Len(merged_df) = Len(sales_df)

\* C7 witness: two sales rows share a CustomerID, and another customer exists.
CustomerIdUniqueWitness ==
    /\ pc = "rendered"
    /\ \E i, j \in DOMAIN sales_df :
           i # j /\ sales_df[i].CustomerID = sales_df[j].CustomerID
    /\ Len(customer_df) = 2

\* C8: once the script has run, no later step changes the sales table, the
\* customer table or their join, whatever the filters are and however often
\* load_data's body executes again.
TablesNeverChange ==
    [][pc = "rendered" =>
          /\ sales_df' = sales_df
          /\ customer_df' = customer_df
          /\ merged_df' = merged_df]_vars

\* C8 witness: the tables were generated a second time and a filter that drops
\* rows has been applied since.
TablesNeverChangeWitness ==
    /\ pc = "rendered"
    /\ loads = 2
    /\ cache # <<>>
    /\ Len(filtered_df) < Len(merged_df)
    /\ \E r1, r2 \in Rows(sales_df) : r1.Product # r2.Product

\* C9 as stated: every customer has Age in 18..70, Gender Male or Female,
\* JoinDate a day of the year 2022 and LoyaltyTier Bronze, Silver or Gold.
CustomerFieldsJoinedIn2022 ==
    \A c \in Rows(customer_df) :
        /\ c.Age \in 18..70
        /\ c.Gender \in {"Male", "Female"}
        /\ YearOf(c.JoinDate) = 2022
        /\ c.LoyaltyTier \in {"Bronze", "Silver", "Gold"}

\* C9 amended: every customer has Age in 18..70, Gender Male or Female, JoinDate
\* a day from 2022-01-01 to 2023-01-01, both included, and LoyaltyTier Bronze,
\* Silver or Gold.
CustomerFieldsInRange ==
    \A c \in Rows(customer_df) :
        /\ c.Age \in 18..70
        /\ c.Gender \in {"Male", "Female"}
        /\ Date(2022, 1) <= c.JoinDate /\ c.JoinDate <= Date(2023, 1)
        /\ c.LoyaltyTier \in {"Bronze", "Silver", "Gold"}

\* C9 witness: a generated customer who joined on 2023-01-01.
CustomerFieldsWitness ==
    /\ pc = "rendered"
    /\ \E c \in Rows(customer_df) : c.JoinDate = Date(2023, 1) /\ YearOf(c.JoinDate) = 2023

\* C10: when the date input does not hold exactly two dates, the filtered table
\* is the merged rows, in order, whose Category, Product and Region are each
\* selected, whatever their Date.
NoDatePredicate ==
    (pc = "rendered" /\ Len(date_range) # 2) =>
        LET Keep(r) == /\ r.Category \in selected_categories
                       /\ r.Product \in selected_products
                       /\ r.Region \in selected_regions
        IN  filtered_df = SelectSeq(merged_df, Keep)

\* C10 witness: the date input holds one date and a row of another day is kept.
NoDatePredicateWitness ==
    /\ pc = "rendered"
    /\ Len(date_range) = 1
    /\ \E r \in Rows(filtered_df) : r.Date # date_range[1]

====
